---- MODULE Spec2Model ----
(***************************************************************************)
(* Model of the streaming chunk decoder of leap-connect                    *)
(* (src/src/v1/api.rs, Client::chat_completion_stream and                  *)
(* Client::read_chunk).                                                    *)
(*                                                                         *)
(* Bytes are one-character strings, byte strings are sequences of them.    *)
(* The response body is cut by the transport into network reads of any     *)
(* size; tokio_util's StreamReader holds the unread rest of the current    *)
(* network read (reader_chunk); read_line appends to line_data up to and   *)
(* including the next line feed.                                           *)
(*                                                                         *)
(* JSON is modelled by a miniature grammar: the text "{" c "}" parses as a  *)
(* chunk when c is a content byte or the text data:, and its decode is c.  *)
(* White space around it is accepted, as serde_json does.                  *)
(***************************************************************************)
EXTENDS Integers, Sequences, FiniteSets, TLC

VARIABLES
    body,          \* the bytes of the response body the server sends
    budget,        \* calls of chat_completion_stream the client still makes
    status,        \* outcome of post_stream for the current call
    prev,          \* how the previous call ended and the chunks it yielded
    netpos,        \* bytes of the body the byte stream has delivered
    read_from,     \* bytes delivered before the latest network read
    reader_chunk,  \* StreamReader: the unread rest of the latest network read
    line_data,     \* the line read_line is collecting
    line_result,   \* what read_line returned
    pc,            \* position of the call and of the unfold closure
    out,           \* the items the consumer has received
    organization,  \* Client.organization, an Option: <<>> or <<name>>
    query,         \* limit, order, after, before of the latest listing call
    request        \* the latest request built: helper, path and headers

stream_vars == <<body, budget, status, prev, netpos, read_from, reader_chunk,
                 line_data, line_result, pc, out>>

api_vars == <<organization, query, request>>

vars == <<body, budget, status, prev, netpos, read_from, reader_chunk,
          line_data, line_result, pc, out, organization, query, request>>

\* ---------------------------------------------------------------- bounds
MaxLines == 3
MaxCalls == 2

\* ----------------------------------------------------------------- bytes
LF == "\n"
DATA == <<"d", "a", "t", "a", ":">>
Content == {"a", "b"}
Whitespace == {" ", "\r", "\n", "\t"}
\* stands for the byte 0xFF, which occurs in no UTF-8 text; every other byte
\* of the model is ASCII
BAD == "?"

\* ------------------------------------------------------- string helpers
\* str::starts_with
starts_with(s, p) ==
    /\ Len(s) >= Len(p)
    /\ SubSeq(s, 1, Len(p)) = p

\* trim removing the trailing white space only
trim_end(s) ==
    LET keep == {i \in 1..Len(s) : s[i] \notin Whitespace}
    IN  IF keep = {} THEN <<>>
        ELSE LET hi == CHOOSE i \in keep : \A j \in keep : j <= i
             IN  SubSeq(s, 1, hi)

\* str::trim: the text without its leading and trailing white space
trim(s) ==
    LET keep == {i \in 1..Len(s) : s[i] \notin Whitespace}
    IN  IF keep = {} THEN <<>>
        ELSE LET lo == CHOOSE i \in keep : \A j \in keep : i <= j
                 hi == CHOOSE i \in keep : \A j \in keep : j <= i
             IN  SubSeq(s, lo, hi)

\* splitn_last cutting at the last occurrence of the pattern
rsplitn_last(s, p) ==
    LET occ == {i \in 1..(Len(s) - Len(p) + 1) : SubSeq(s, i, i + Len(p) - 1) = p}
    IN  IF occ = {} THEN s
        ELSE LET last == CHOOSE i \in occ : \A j \in occ : j <= i
             IN  SubSeq(s, last + Len(p), Len(s))

\* s.splitn(2, "data:").last(): the text after the first occurrence of the
\* pattern, or the whole text when the pattern does not occur
splitn_last(s, p) ==
    LET occ == {i \in 1..(Len(s) - Len(p) + 1) : SubSeq(s, i, i + Len(p) - 1) = p}
    IN  IF occ = {} THEN s
        ELSE LET first == CHOOSE i \in occ : \A j \in occ : i <= j
             IN  SubSeq(s, first + Len(p), Len(s))

\* serde_json::from_str::<ChatChunkResponse>: Ok with the decoded chunk, or Err
from_str(msg) ==
    LET t == trim(msg)
    IN  IF Len(t) = 3 /\ t[1] = "{" /\ t[2] \in Content /\ t[3] = "}"
        THEN [ok |-> TRUE, chunk |-> t[2]]
        ELSE IF t = <<"{">> \o DATA \o <<"}">>
        THEN [ok |-> TRUE, chunk |-> "data:"]
        ELSE [ok |-> FALSE, chunk |-> ""]

\* read_chunk without the test for the prefix
read_chunk_any_line(line) == from_str(splitn_last(trim(line), DATA))

\* Client::read_chunk
read_chunk(line) ==
    LET ser_data == trim(line)
    IN  IF ser_data = <<>> \/ starts_with(ser_data, DATA)
        THEN from_str(splitn_last(ser_data, DATA))
        ELSE [ok |-> FALSE, chunk |-> ""]

\* ---------------------------------------------------------------- inputs
ValidLine(c) == DATA \o <<"{", c, "}", LF>>
MalformedLine == DATA \o <<"{", "a", LF>>
BlankLine == <<LF>>
EmptyPayloadLine == DATA \o <<LF>>
JunkLine == <<"x">> \o ValidLine("b")
BareJsonLine == <<"{", "a", "}", LF>>
DoneLine == DATA \o <<" ", "[", "D", "O", "N", "E", "]", LF>>
\* a valid data line preceded by a space
PaddedLine == <<" ">> \o ValidLine("b")
\* a valid data line ended by a carriage return and a line feed
CrLfLine == DATA \o <<"{", "a", "}", "\r", LF>>
\* a valid data line whose payload holds the text data:
InnerLine == DATA \o <<"{">> \o DATA \o <<"}", LF>>
\* a data line whose payload holds a byte that is not UTF-8
BadLine == DATA \o <<"{", BAD, "}", LF>>
\* a valid data line that the end of the body cuts before its line feed
PartialLine == DATA \o <<"{", "a", "}">>

RECURSIVE Concat(_)
Concat(ls) == IF ls = <<>> THEN <<>> ELSE Head(ls) \o Concat(Tail(ls))

\* the bodies of 1 to MaxLines lines, each line of one of the given kinds
BodiesOf(kinds) == {Concat(ls) : ls \in UNION {[1..n -> kinds] : n \in 1..MaxLines}}

ValidLines == {ValidLine(c) : c \in Content}
Bodies == BodiesOf(ValidLines \cup {MalformedLine, BlankLine})
ValidBodies == BodiesOf(ValidLines)
FramingBodies == BodiesOf({ValidLine("a"), BlankLine, EmptyPayloadLine, JunkLine})
BareBodies == BodiesOf({ValidLine("b"), BareJsonLine, JunkLine})
SentinelBodies == BodiesOf({ValidLine("a"), DoneLine})
PartialBodies ==
    {b \o PartialLine : b \in BodiesOf({ValidLine("b"), BlankLine}) \cup {<<>>}}
Utf8Bodies == BodiesOf({ValidLine("a"), BadLine})
InnerBodies == BodiesOf({ValidLine("a"), InnerLine})
TrimBodies == BodiesOf({ValidLine("a"), PaddedLine, CrLfLine})
LiveBodies == {MalformedLine \o ValidLine("a"), ValidLine("b") \o BlankLine}

\* ------------------------------------------------------------------ state
Unset == [tag |-> "Unset", n |-> 0]
Ok(n) == [tag |-> "Ok", n |-> n]
Err == [tag |-> "Err", n |-> 0]

NoneItem == [t |-> "None", v |-> "", lo |-> 0, hi |-> 0]
ChunkItem(c, lo, hi) == [t |-> "Chunk", v |-> c, lo |-> lo, hi |-> hi]

\* position in the body of the next byte read_line will take
Cursor == netpos - Len(reader_chunk)

NoPrev == [end |-> "none", chunks |-> <<>>]

\* no listing call made yet, no request built yet
NoQuery == [limit |-> <<>>, order |-> <<>>, after |-> <<>>, before |-> <<>>]
NoRequest == [via |-> "none", path |-> <<>>, headers |-> {}]

\* Paths are sequences of words: "/assistants" and "/threads" are one word
\* each, so that a test for a prefix of the text is a test on the first word.
CHAT == <<"/chat/completions">>

\* Client::is_beta with the test for "/threads" left out
is_beta_assistants_only(path) == starts_with(path, <<"/assistants">>)

\* Client::is_beta
is_beta(path) ==
    starts_with(path, <<"/assistants">>) \/ starts_with(path, <<"/threads">>)

\* Client::build_request: the headers of the request
build_request(org, beta) ==
    {<<"Content-Type", "application/json">>, <<"Authorization", "Bearer api_key">>}
    \cup (IF org # <<>> THEN {<<"tupleleapai-organization", org[1]>>} ELSE {})
    \cup (IF beta THEN {<<"tupleleapai-Beta", "assistants=v1">>} ELSE {})

\* Client::build_request_stream
build_request_stream(org, beta) ==
    build_request(org, beta) \cup {<<"Accept", "text/event-stream">>}

\* params.join(sep)
RECURSIVE join(_, _)
join(params, sep) ==
    IF params = <<>> THEN <<>>
    ELSE IF Len(params) = 1 THEN Head(params)
    ELSE Head(params) \o <<sep>> \o join(Tail(params), sep)

\* Client::query_params with the question mark appended in every case
query_params_always_marks(limit, order, after, before, url) ==
    LET params ==
            (IF limit # <<>> THEN << <<"limit", "=", ToString(limit[1])>> >> ELSE <<>>)
            \o (IF order # <<>> THEN << <<"order", "=", order[1]>> >> ELSE <<>>)
            \o (IF after # <<>> THEN << <<"after", "=", after[1]>> >> ELSE <<>>)
            \o (IF before # <<>> THEN << <<"before", "=", before[1]>> >> ELSE <<>>)
    IN  url \o <<"?">> \o join(params, "&")

\* Client::query_params; format!("limit={}", limit) writes the integer in
\* decimal, the other values are written as they are
query_params(limit, order, after, before, url) ==
    LET params ==
            (IF limit # <<>> THEN << <<"limit", "=", ToString(limit[1])>> >> ELSE <<>>)
            \o (IF order # <<>> THEN << <<"order", "=", order[1]>> >> ELSE <<>>)
            \o (IF after # <<>> THEN << <<"after", "=", after[1]>> >> ELSE <<>>)
            \o (IF before # <<>> THEN << <<"before", "=", before[1]>> >> ELSE <<>>)
    IN  IF params # <<>> THEN url \o <<"?">> \o join(params, "&") ELSE url

InitWith(bodies, n) ==
    /\ body \in bodies
    /\ budget = n
    /\ status = "none"
    /\ prev = NoPrev
    /\ netpos = 0
    /\ read_from = 0
    /\ reader_chunk = <<>>
    /\ line_data = <<>>
    /\ line_result = Unset
    /\ pc = "NoCall"
    /\ out = <<>>
    /\ organization = <<>>
    /\ query = NoQuery
    /\ request = NoRequest

\* chunks of the items the consumer has received, in order
Chunks(items) ==
    [i \in 1..Len(SelectSeq(items, LAMBDA it : it.t = "Chunk")) |->
        SelectSeq(items, LAMBDA it : it.t = "Chunk")[i].v]

\* how the call that is being replaced ended
EndOf ==
    IF pc = "Done" THEN (IF line_result = Ok(0) THEN "clean" ELSE "error")
    ELSE IF pc = "Dropped" THEN "dropped" ELSE "failed"

\* ---------------------------------------------------------------- actions
\* after_post with the stream built whatever post_stream returned
after_post_always_streams(res_ok) == "Idle"

\* where the call stands after post_stream: `?` and the status test return
\* the error before any reader exists, otherwise the stream is built
after_post(res_ok) == IF res_ok THEN "Idle" ELSE "Failed"

\* Client::chat_completion_stream up to the construction of the stream:
\* post_stream fails (network failure, non-success status) or the response
\* body is wrapped in a StreamReader handed to stream::unfold
chat_completion_stream ==
    /\ pc \in {"NoCall", "Failed", "Done", "Dropped"}
    /\ budget > 0
    /\ budget' = budget - 1
    /\ prev' = IF pc = "NoCall" THEN prev
               ELSE [end |-> EndOf, chunks |-> Chunks(out)]
    /\ \E res_ok \in BOOLEAN :
          /\ status' = IF res_ok THEN "ok" ELSE "err"
          /\ pc' = after_post(res_ok)
    /\ netpos' = 0
    /\ read_from' = 0
    /\ reader_chunk' = <<>>
    /\ line_data' = <<>>
    /\ line_result' = Unset
    /\ out' = <<>>
    /\ request' = [via |-> "post_stream", path |-> CHAT,
                   headers |-> build_request_stream(organization, is_beta(CHAT))]
    /\ UNCHANGED <<body, organization, query>>

\* fresh_line with the text of the line before kept
fresh_line_reused(old) == old

\* let mut line_data = String::new(), at the top of every turn of the loop
fresh_line(old) == <<>>

\* poll_next with an exhausted stream starting to read again
poll_next_restarts ==
    /\ pc \in {"Idle", "Done"}
    /\ pc' = "ReadLine"
    /\ line_data' = <<>>
    /\ line_result' = Unset
    /\ UNCHANGED <<body, budget, status, prev, netpos, read_from, reader_chunk, out>>
    /\ UNCHANGED api_vars

\* the consumer pulls the next item: the unfold closure starts its loop with
\* an empty line_data and calls read_line
poll_next ==
    /\ pc = "Idle"
    /\ pc' = "ReadLine"
    /\ line_data' = fresh_line(line_data)
    /\ line_result' = Unset
    /\ UNCHANGED <<body, budget, status, prev, netpos, read_from, reader_chunk, out>>
    /\ UNCHANGED api_vars

\* index of the first line feed of s, 0 when it has none
memchr(s) ==
    LET nl == {i \in 1..Len(s) : s[i] = LF}
    IN  IF nl = {} THEN 0 ELSE CHOOSE i \in nl : \A j \in nl : i <= j

\* String::from_utf8 on the bytes of a line: whether they are UTF-8 text
from_utf8(line) == \A i \in 1..Len(line) : line[i] # BAD

\* what read_line returns for the bytes it has collected: their number, or
\* the error InvalidData when they are not UTF-8 text
line_outcome(line) == IF from_utf8(line) THEN [tag |-> "Ok", n |-> Len(line)]
                      ELSE [tag |-> "Err", n |-> 0]

\* read_line over the bytes StreamReader holds: take them up to and including
\* the first line feed; the line is complete when one was found
read_line ==
    /\ pc = "ReadLine"
    /\ reader_chunk # <<>>
    /\ LET nl == memchr(reader_chunk)
           used == IF nl > 0 THEN nl ELSE Len(reader_chunk)
           line == line_data \o SubSeq(reader_chunk, 1, used)
       IN  /\ line_data' = line
           /\ reader_chunk' = SubSeq(reader_chunk, used + 1, Len(reader_chunk))
           /\ IF nl > 0
              THEN pc' = "Check" /\ line_result' = line_outcome(line)
              ELSE UNCHANGED <<pc, line_result>>
    /\ UNCHANGED <<body, budget, status, prev, netpos, read_from, out>>
    /\ UNCHANGED api_vars

\* transport_deliver with bytes fetched ahead while no pull is in progress
transport_deliver_prefetch ==
    /\ pc \in {"ReadLine", "Idle"}
    /\ reader_chunk = <<>>
    /\ netpos < Len(body)
    /\ \E n \in 1..(Len(body) - netpos) :
          /\ reader_chunk' = SubSeq(body, netpos + 1, netpos + n)
          /\ netpos' = netpos + n
    /\ read_from' = netpos
    /\ UNCHANGED <<body, budget, status, prev, line_data, line_result, pc, out>>
    /\ UNCHANGED api_vars

\* StreamReader::poll_fill_buf with no bytes left: the byte stream delivers
\* the next network read, of any size
transport_deliver ==
    /\ pc = "ReadLine"
    /\ reader_chunk = <<>>
    /\ netpos < Len(body)
    /\ \E n \in 1..(Len(body) - netpos) :
          /\ reader_chunk' = SubSeq(body, netpos + 1, netpos + n)
          /\ netpos' = netpos + n
    /\ read_from' = netpos
    /\ UNCHANGED <<body, budget, status, prev, line_data, line_result, pc, out>>
    /\ UNCHANGED api_vars

\* the byte stream has ended: read_line returns the number of bytes it has
\* collected for this line, 0 when there are none
transport_end ==
    /\ pc = "ReadLine"
    /\ reader_chunk = <<>>
    /\ netpos = Len(body)
    /\ line_result' = line_outcome(line_data)
    /\ pc' = "Check"
    /\ UNCHANGED <<body, budget, status, prev, netpos, read_from, reader_chunk, line_data, out>>
    /\ UNCHANGED api_vars

\* the byte stream fails: read_line returns the error
transport_error ==
    /\ pc = "ReadLine"
    /\ reader_chunk = <<>>
    /\ line_result' = Err
    /\ pc' = "Check"
    /\ UNCHANGED <<body, budget, status, prev, netpos, read_from, reader_chunk, line_data, out>>
    /\ UNCHANGED api_vars

\* stream_ends with a line that does not parse ending the stream as well
stream_ends_on_skip(res, line) ==
    res.tag = "Err" \/ res.n = 0 \/ ~read_chunk(line).ok

\* stream_ends without the test for a read of zero bytes
stream_ends_on_error_only(res, line) == res.tag = "Err"

\* whether the closure returns None after read_line returned res:
\* line_result.is_err(), or line_result.unwrap() == 0
stream_ends(res, line) == res.tag = "Err" \/ res.n = 0

\* end_item with the read error handed to the consumer
end_item_surfaces_error(res) ==
    IF res.tag = "Err" THEN [t |-> "Err", v |-> "", lo |-> 0, hi |-> 0]
    ELSE NoneItem

\* what the consumer receives when the closure ends the stream: the closure
\* returns None on both paths, the error is only printed
end_item(res) == NoneItem

\* the rest of the loop body of the unfold closure, after read_line returned
unfold_step ==
    /\ pc = "Check"
    /\ IF stream_ends(line_result, line_data)
       THEN /\ pc' = "Done"
            /\ out' = Append(out, end_item(line_result))
            /\ line_data' = <<>>
            /\ UNCHANGED <<reader_chunk, line_result>>
       ELSE LET read_result == read_chunk(line_data)
            IN  IF read_result.ok
                THEN \* StreamReader::new(reader.into_inner()): the bytes the
                     \* old reader still held are not handed on
                     /\ pc' = "Idle"
                     /\ out' = Append(out, ChunkItem(read_result.chunk,
                                      Cursor - Len(line_data) + 1, Cursor))
                     /\ reader_chunk' = <<>>
                     /\ line_data' = <<>>
                     /\ line_result' = Unset
                ELSE \* skip the line and read the next one
                     /\ pc' = "ReadLine"
                     /\ line_data' = fresh_line(line_data)
                     /\ line_result' = Unset
                     /\ UNCHANGED <<reader_chunk, out>>
    /\ UNCHANGED <<body, budget, status, prev, netpos, read_from>>
    /\ UNCHANGED api_vars

\* the consumer pulls again after the stream returned None: stream::unfold
\* holds no reader any more (the closure consumed it) and panics
poll_after_done ==
    /\ pc = "Done"
    /\ pc' = "Panicked"
    /\ UNCHANGED <<body, budget, status, prev, netpos, read_from, reader_chunk,
                   line_data, line_result, out>>
    /\ UNCHANGED api_vars

\* the consumer drops the stream: the reader and the connection go with it
drop_stream ==
    /\ pc \in {"Idle", "ReadLine"}
    /\ pc' = "Dropped"
    /\ reader_chunk' = <<>>
    /\ line_data' = <<>>
    /\ line_result' = Unset
    /\ UNCHANGED <<body, budget, status, prev, netpos, read_from, out>>
    /\ UNCHANGED api_vars

\* ------------------------------------------------- the request helpers
Paths ==
    {<<"/completions">>, CHAT, <<"/files">>, <<"/files", "/", "id">>,
     <<"/assistants">>, <<"/assistants", "/", "id">>,
     <<"/threads">>, <<"/threads", "/", "id">>}

Limits == {<<>>, <<1>>, <<20>>}
Orders == {<<>>, <<"asc">>, <<"desc">>}
Cursors == {<<>>, <<"id">>}

\* Client::post
post ==
    /\ \E path \in Paths :
          request' = [via |-> "post", path |-> path,
                      headers |-> build_request(organization, is_beta(path))]
    /\ UNCHANGED <<organization, query>>
    /\ UNCHANGED stream_vars

\* Client::post_stream
post_stream ==
    /\ \E path \in Paths :
          request' = [via |-> "post_stream", path |-> path,
                      headers |-> build_request_stream(organization, is_beta(path))]
    /\ UNCHANGED <<organization, query>>
    /\ UNCHANGED stream_vars

\* Client::get
get ==
    /\ \E path \in Paths :
          request' = [via |-> "get", path |-> path,
                      headers |-> build_request(organization, is_beta(path))]
    /\ UNCHANGED <<organization, query>>
    /\ UNCHANGED stream_vars

\* Client::delete
delete ==
    /\ \E path \in Paths :
          request' = [via |-> "delete", path |-> path,
                      headers |-> build_request(organization, is_beta(path))]
    /\ UNCHANGED <<organization, query>>
    /\ UNCHANGED stream_vars

\* Client::list_assistant: the URL is "/assistants" completed by
\* query_params, and is fetched with get
list_assistant ==
    /\ \E limit \in Limits, order \in Orders, after \in Cursors, before \in Cursors :
          LET url == query_params(limit, order, after, before, <<"/assistants">>)
          IN  /\ query' = [limit |-> limit, order |-> order,
                           after |-> after, before |-> before]
              /\ request' = [via |-> "get", path |-> url,
                             headers |-> build_request(organization, is_beta(url))]
    /\ UNCHANGED organization
    /\ UNCHANGED stream_vars

Next ==
    \/ chat_completion_stream
    \/ poll_next
    \/ read_line
    \/ transport_deliver
    \/ transport_end
    \/ transport_error
    \/ unfold_step
    \/ poll_after_done
    \/ drop_stream

\* one call, any body of up to MaxLines lines
Init == InitWith(Bodies, 1)

Spec == Init /\ [][Next]_vars

\* MaxCalls calls that receive the same body of valid lines
InitTwoCalls == InitWith(ValidBodies, MaxCalls)

SpecTwoCalls == InitTwoCalls /\ [][Next]_vars

\* one call, bodies with blank lines, empty payloads and lines without prefix
InitFraming == InitWith(FramingBodies, 1)

SpecFraming == InitFraming /\ [][Next]_vars

\* one call, bodies with lines that lack the prefix
InitBare == InitWith(BareBodies, 1)

SpecBare == InitBare /\ [][Next]_vars

\* one call over a finite body, with a transport that answers every pending
\* poll (bytes, end or error), a runtime that runs the pulled closure, and a
\* consumer that keeps pulling, as collect() does
InitLive == InitWith(LiveBodies, 1)

Fairness ==
    WF_vars(poll_next \/ read_line \/ unfold_step
            \/ transport_deliver \/ transport_end \/ transport_error)

SpecLive == InitLive /\ [][Next]_vars /\ Fairness

\* one call, bodies that hold the sentinel line "data: [DONE]"
InitSentinel == InitWith(SentinelBodies, 1)

SpecSentinel == InitSentinel /\ [][Next]_vars

\* one call, bodies whose last line has no line feed
InitPartial == InitWith(PartialBodies, 1)

SpecPartial == InitPartial /\ [][Next]_vars

\* one call, bodies with lines that are not UTF-8 text
InitUtf8 == InitWith(Utf8Bodies, 1)

SpecUtf8 == InitUtf8 /\ [][Next]_vars

\* one call, bodies with payloads that hold the text data:
InitInner == InitWith(InnerBodies, 1)

SpecInner == InitInner /\ [][Next]_vars

\* one call, bodies with lines that have white space around them
InitTrim == InitWith(TrimBodies, 1)

SpecTrim == InitTrim /\ [][Next]_vars

\* the calls of a client, with or without an organization, through the
\* request helpers, the listing of assistants and the streaming chat call
InitApi ==
    /\ body = ValidLine("a")
    /\ budget = 1
    /\ status = "none"
    /\ prev = NoPrev
    /\ netpos = 0
    /\ read_from = 0
    /\ reader_chunk = <<>>
    /\ line_data = <<>>
    /\ line_result = Unset
    /\ pc = "NoCall"
    /\ out = <<>>
    /\ organization \in {<<>>, <<"org">>}
    /\ query = NoQuery
    /\ request = NoRequest

NextApi ==
    \/ post
    \/ post_stream
    \/ get
    \/ delete
    \/ list_assistant
    \/ chat_completion_stream

SpecApi == InitApi /\ [][NextApi]_vars

TypeOK ==
    /\ body \in Bodies \cup FramingBodies \cup BareBodies \cup LiveBodies
                \cup SentinelBodies \cup PartialBodies \cup Utf8Bodies
                \cup InnerBodies \cup TrimBodies
    /\ status \in {"none", "ok", "err"}
    /\ budget \in 0..MaxCalls
    /\ netpos \in 0..Len(body)
    /\ pc \in {"NoCall", "Failed", "Idle", "ReadLine", "Check", "Done", "Panicked",
              "Dropped"}

\* ------------------------------------------------- reference definitions
\* whether a line of b starts at position s
IsLineStart(b, s) == s \in 1..Len(b) /\ (s = 1 \/ b[s - 1] = LF)

\* the last position of the line of b that holds position s
LineEnd(b, s) ==
    LET nl == {i \in s..Len(b) : b[i] = LF}
    IN  IF nl = {} THEN Len(b) ELSE CHOOSE i \in nl : \A j \in nl : i <= j

\* the decodes of the lines of b from position s on, in order
RECURSIVE Decodes(_, _)
Decodes(b, s) ==
    IF s > Len(b) THEN <<>>
    ELSE LET e == LineEnd(b, s)
             r == read_chunk(SubSeq(b, s, e))
         IN  (IF r.ok THEN <<r.chunk>> ELSE <<>>) \o Decodes(b, e + 1)

\* the chunks of the items decoded from position p of the body on
ChunksFrom(items, p) ==
    Chunks(SelectSeq(items, LAMBDA it : it.t = "Chunk" /\ it.lo >= p))

\* the stream has ended because read_line returned zero bytes
CleanEnd == pc = "Done" /\ line_result = Ok(0)

BlankBodies == BodiesOf({ValidLine("a"), BlankLine, EmptyPayloadLine})

\* ------------------------------------------------------------------ claims
\* C1: when the body is N valid data lines, each ended by a line feed, the
\* stream pulled to its clean end has yielded exactly the N decodes of the
\* lines, in order, however the transport cut the bytes into reads.
C1_AllValidLinesYielded ==
    (body \in ValidBodies /\ CleanEnd) => Chunks(out) = Decodes(body, 1)

\* C2: two calls that receive the same body, cut into network reads in two
\* ways, yield the same chunks when both are pulled to their clean end.
C2_SameChunksForAnyPartition ==
    (prev.end = "clean" /\ CleanEnd) => Chunks(out) = prev.chunks

\* C3: a valid data line of the body whose bytes arrived in two network
\* reads (the latest read began inside it) has been yielded as one chunk,
\* decoded from the whole line, once the decoder has gone past its end.
C3_SplitLineDecodedWhole ==
    \A s \in 1..Len(body) :
        LET e == LineEnd(body, s)
            r == read_chunk(SubSeq(body, s, e))
        IN  ( /\ IsLineStart(body, s)
              /\ r.ok
              /\ s <= read_from /\ read_from < e
              /\ Cursor >= e
              /\ pc \in {"ReadLine", "Idle", "Done"} )
            => \E i \in 1..Len(out) : out[i] = ChunkItem(r.chunk, s, e)

\* C4: after a chunk is yielded and the reader is rebuilt, the next line read
\* starts at the byte right after the yielded line's terminator.
C4_CursorAfterYield ==
    (pc = "Idle" /\ out # <<>>) => Cursor = out[Len(out)].hi

\* C5: every chunk yielded is the decode of one whole line of the body that
\* parses; none is decoded from a part of a line.
C5_ChunksAreLines ==
    \A i \in 1..Len(out) :
        out[i].t = "Chunk" =>
            /\ IsLineStart(body, out[i].lo)
            /\ out[i].hi = LineEnd(body, out[i].lo)
            /\ read_chunk(SubSeq(body, out[i].lo, out[i].hi))
                   = [ok |-> TRUE, chunk |-> out[i].v]

\* C6: a data line with malformed JSON yields no chunk and does not end the
\* stream: at the clean end the chunks decoded after it are the decodes of
\* the valid lines that follow it, in order.
C6_ValidAfterMalformed ==
    CleanEnd =>
        \A s \in 1..Len(body) :
            LET e == LineEnd(body, s)
            IN  (IsLineStart(body, s) /\ SubSeq(body, s, e) = MalformedLine)
                => /\ \A i \in 1..Len(out) : out[i].lo # s
                   /\ ChunksFrom(out, e + 1) = Decodes(body, e + 1)

\* C7: blank lines and data lines with an empty payload yield no chunk and
\* change nothing for the valid lines: at the clean end the chunks are the
\* decodes of the valid lines, in order.
C7_BlankLinesChangeNothing ==
    (body \in BlankBodies /\ CleanEnd) => Chunks(out) = Decodes(body, 1)

\* C8: the stream is exhausted only when the last read_line returned zero
\* bytes or an error, never because of how a line classified or parsed.
C8_EndsOnlyOnZeroOrError ==
    pc = "Done" => (line_result.tag = "Err" \/ line_result = Ok(0))

\* a malformed line was skipped, the valid line after it yielded, then the end
C8_Witness ==
    /\ body = MalformedLine \o ValidLine("a")
    /\ pc = "Done"
    /\ line_result = Ok(0)
    /\ out = <<ChunkItem("a", Len(MalformedLine) + 1, Len(body)), NoneItem>>

\* C9: when the byte source has ended and no byte is left, read_line returns
\* zero and the pull reports exhaustion: the consumer receives None, and
\* nothing else.
C9_ZeroBytesEndsSilently ==
    [][ /\ ( /\ pc = "ReadLine" /\ pc' = "Check"
             /\ line_data = <<>> /\ reader_chunk = <<>>
             /\ netpos = Len(body)
             /\ line_result'.tag = "Ok" )
           => line_result' = Ok(0)
        /\ (pc = "Check" /\ line_result = Ok(0))
           => (pc' = "Done" /\ out' = Append(out, NoneItem)) ]_vars

C9_Witness ==
    /\ body = ValidLine("a")
    /\ pc = "Done"
    /\ line_result = Ok(0)
    /\ out = <<ChunkItem("a", 1, Len(body)), NoneItem>>

\* C10: a read error ends the stream like a clean end: the pull in which it
\* occurs yields no chunk for the line being read, and the consumer receives
\* None, the item a clean end gives.
C10_ReadErrorEndsSilently ==
    [][ (pc = "Check" /\ line_result.tag = "Err")
        => (pc' = "Done" /\ out' = Append(out, NoneItem)) ]_vars

\* the error came when the whole of a valid line but its line feed was read
C10_Witness ==
    /\ body = ValidLine("a")
    /\ pc = "Done"
    /\ line_result = Err
    /\ netpos = Len(body) - 1
    /\ out = <<NoneItem>>

\* C11: when the request fails before streaming starts, the call returns the
\* error and builds no decoder: nothing is read from the body, no line is
\* read and no item is yielded for that call.
C11_FailedCallBuildsNoDecoder ==
    status = "err" =>
        /\ pc = "Failed"
        /\ out = <<>>
        /\ netpos = 0
        /\ reader_chunk = <<>>
        /\ line_data = <<>>
        /\ line_result = Unset

C11_Witness == status = "err" /\ pc = "Failed" /\ budget = 0

\* whether a is b with some of its elements left out
RECURSIVE IsSubseq(_, _)
IsSubseq(a, b) ==
    IF a = <<>> THEN TRUE
    ELSE IF b = <<>> THEN FALSE
    ELSE IF Head(a) = Head(b) THEN IsSubseq(Tail(a), Tail(b))
    ELSE IsSubseq(a, Tail(b))

\* C12: the chunks yielded are, in order, decodes of received lines: the
\* yielded sequence is a subsequence of the decodes of the lines of the body,
\* and each chunk comes from bytes after those of the chunk before it.
C12_YieldedInWireOrder ==
    /\ IsSubseq(Chunks(out), Decodes(body, 1))
    /\ \A i \in 1..Len(out), j \in 1..Len(out) :
           (i < j /\ out[j].t = "Chunk") => out[i].hi < out[j].lo

\* C13: once a pull has reported exhaustion the decoder is finished: within
\* that call no byte is taken from the transport, no line is read and no
\* item is yielded any more, also when the body has bytes left.
C13_DoneIsTerminal ==
    [][ (pc \in {"Done", "Panicked"} /\ budget' = budget)
        => /\ pc' \in {"Done", "Panicked"}
           /\ UNCHANGED <<out, netpos, reader_chunk, line_data, line_result>> ]_vars

\* pulled again after a read error that left bytes of the body undelivered
C13_Witness ==
    /\ pc = "Panicked"
    /\ line_result = Err
    /\ netpos < Len(body)
    /\ out = <<NoneItem>>

\* C14: a line that is not empty after trimming and does not begin with
\* "data:" yields nothing and the decoder goes on to read the next line,
\* also when the line by itself is the JSON of a chunk.
C14_UnprefixedLineSkipped ==
    [][ ( /\ pc = "Check"
          /\ line_result.tag = "Ok" /\ line_result.n > 0
          /\ trim(line_data) # <<>>
          /\ ~starts_with(trim(line_data), DATA) )
        => (pc' = "ReadLine" /\ out' = out) ]_vars

\* a bare chunk JSON line was passed over, the data line after it yielded
C14_Witness ==
    /\ body = BareJsonLine \o ValidLine("b")
    /\ CleanEnd
    /\ out = <<ChunkItem("b", Len(BareJsonLine) + 1, Len(body)), NoneItem>>

\* the end of the chunk item before item i, 0 when there is none
HiBefore(i) == IF i = 1 THEN 0 ELSE out[i - 1].hi

\* C15: a pull hands the consumer a chunk or exhaustion, never a skip: None
\* is the last item only; every chunk is the one of the first parseable line
\* after the line of the chunk before it, the unparseable lines between
\* having been consumed by the same pull; and the pull that yielded a chunk
\* has taken no byte of a line after that chunk's line.
C15_PullYieldsFirstParseable ==
    /\ \A i \in 1..Len(out) : out[i].t = "None" => i = Len(out)
    /\ \A i \in 1..Len(out) :
           out[i].t = "Chunk" =>
               \A s \in (HiBefore(i) + 1)..(out[i].lo - 1) :
                   (IsLineStart(body, s) /\ LineEnd(body, s) < out[i].lo)
                   => ~read_chunk(SubSeq(body, s, LineEnd(body, s))).ok
    /\ (pc = "Idle" /\ out # <<>>) =>
           \A s \in 1..Len(body) :
               (IsLineStart(body, s) /\ s > out[Len(out)].hi) => Cursor < s

\* C16: bytes are taken from the transport only while a pull is in progress,
\* so none between a yielded chunk and the next pull; once the consumer has
\* dropped the stream nothing is read or yielded any more and the reader
\* holds no bytes.
C16_ReadsOnlyDuringPull ==
    [][ /\ (netpos' # netpos /\ budget' = budget) => pc = "ReadLine"
        /\ (pc = "Dropped" /\ budget' = budget)
              => (pc' = "Dropped" /\ netpos' = netpos /\ out' = out)
        /\ pc' = "Dropped" => (reader_chunk' = <<>> /\ line_data' = <<>>) ]_vars

\* dropped after one chunk, with bytes of the body still undelivered
C16_Witness ==
    /\ pc = "Dropped"
    /\ Len(out) = 1 /\ out[1].t = "Chunk"
    /\ netpos > 0 /\ netpos < Len(body)

\* C17: the decoder holds one line at most: line_data is empty whenever a
\* line read starts, never holds a line feed but as its last byte, and when
\* read_line has returned it is exactly the bytes of the body that end at
\* the cursor, with no text of an earlier line before them.
C17_OneLineAtATime ==
    [][ /\ (pc' = "ReadLine" /\ pc # "ReadLine") => line_data' = <<>>
        /\ \A i \in 1..(Len(line_data') - 1) : line_data'[i] # LF
        /\ (pc' = "Check" /\ line_result'.tag = "Ok")
              => line_data' = SubSeq(body, Cursor' - Len(line_data') + 1, Cursor')
      ]_vars

\* the line read after a skipped line holds that line only
C17_Witness ==
    /\ body = MalformedLine \o ValidLine("a")
    /\ pc = "Check"
    /\ line_data = ValidLine("a")
    /\ out = <<>>

\* C18: over a finite body and a fair transport every pull returns (with a
\* chunk or with exhaustion, unless the consumer drops the stream), and the
\* stream of a call that succeeded is eventually exhausted or dropped.
C18_PullsReturnAndStreamEnds ==
    /\ (pc = "ReadLine") ~> (pc \in {"Idle", "Done", "Panicked", "Dropped"})
    /\ (status = "ok") ~> (pc \in {"Done", "Panicked", "Dropped"})

\* a pull skipped a line and returned a chunk, the next reported exhaustion
C18_Witness ==
    /\ body = MalformedLine \o ValidLine("a")
    /\ CleanEnd
    /\ Chunks(out) = <<"a">>
    /\ out[Len(out)] = NoneItem

\* C19: the line "data: [DONE]" yields nothing and does not end the stream:
\* the stream ends only on a read of zero bytes or a read error, and at the
\* clean end the chunks decoded after a sentinel line are the decodes of the
\* valid lines that follow it.
C19_SentinelDoesNotEnd ==
    /\ pc = "Done" => (line_result.tag = "Err" \/ line_result = Ok(0))
    /\ CleanEnd =>
           \A s \in 1..Len(body) :
               LET e == LineEnd(body, s)
               IN  (IsLineStart(body, s) /\ SubSeq(body, s, e) = DoneLine)
                   => /\ \A i \in 1..Len(out) : out[i].lo # s
                      /\ ChunksFrom(out, e + 1) = Decodes(body, e + 1)

\* C20: when the body ends with a valid data line that has no line feed, the
\* line is parsed all the same: at the clean end its chunk is the last chunk
\* yielded, and the item after it is the exhaustion.
C20_UnterminatedLastLineYielded ==
    (body \in PartialBodies /\ CleanEnd) =>
        /\ Len(out) >= 2
        /\ out[Len(out) - 1]
              = ChunkItem("a", Len(body) - Len(PartialLine) + 1, Len(body))
        /\ out[Len(out)] = NoneItem

\* C21: a line that holds a byte that is not UTF-8 ends the stream: no chunk
\* is ever yielded for bytes of that line nor for any line after it.
C21_InvalidUtf8EndsStream ==
    \A s \in 1..Len(body) :
        (IsLineStart(body, s) /\ ~from_utf8(SubSeq(body, s, LineEnd(body, s))))
        => \A i \in 1..Len(out) : out[i].t = "Chunk" => out[i].hi < s

\* C22: when the closure classifies a line whose trimmed text starts with
\* data:, the JSON parser gets everything after that first prefix: the pull
\* yields the decode of that text when it parses, and yields nothing when it
\* does not; a payload that holds data: is not cut at the inner occurrence.
C22_OnlyFirstPrefixRemoved ==
    [][(/\ pc = "Check"
        /\ ~stream_ends(line_result, line_data)
        /\ starts_with(trim(line_data), DATA))
       => LET ser_data == trim(line_data)
              r == from_str(SubSeq(ser_data, Len(DATA) + 1, Len(ser_data)))
          IN  IF r.ok
              THEN /\ Len(out') = Len(out) + 1
                   /\ out'[Len(out')].t = "Chunk"
                   /\ out'[Len(out')].v = r.chunk
              ELSE out' = out]_vars

\* a line whose payload holds data: has yielded its chunk
C22_Witness ==
    \E i \in 1..Len(out) :
        /\ out[i].v = "data:"
        /\ SubSeq(body, out[i].lo, out[i].hi) = InnerLine

\* the line without its leading spaces and without the carriage return
\* before its line feed
RECURSIVE Unpadded(_)
Unpadded(line) ==
    IF line # <<>> /\ Head(line) = " " THEN Unpadded(Tail(line))
    ELSE IF Len(line) >= 2 /\ line[Len(line) - 1] = "\r" /\ line[Len(line)] = LF
    THEN SubSeq(line, 1, Len(line) - 2) \o <<LF>>
    ELSE line

\* C23: a line is classified after trimming: when the line the closure has
\* read is a valid data line with spaces before it or a carriage return
\* before its line feed, the pull yields the chunk of the valid line.
C23_TrimmedBeforeClassifying ==
    [][\A c \in Content :
          (/\ pc = "Check"
           /\ ~stream_ends(line_result, line_data)
           /\ Unpadded(line_data) = ValidLine(c))
          => /\ read_chunk(ValidLine(c)) = [ok |-> TRUE, chunk |-> c]
             /\ Len(out') = Len(out) + 1
             /\ out'[Len(out')].t = "Chunk"
             /\ out'[Len(out')].v = c]_vars

\* a line with a space before it and a line ended by carriage return and
\* line feed have both yielded their chunks
C23_Witness ==
    \E i, j \in 1..Len(out) :
        /\ out[i].t = "Chunk"
        /\ out[j].t = "Chunk"
        /\ SubSeq(body, out[i].lo, out[i].hi) = PaddedLine
        /\ out[i].v = "b"
        /\ SubSeq(body, out[j].lo, out[j].hi) = CrLfLine
        /\ out[j].v = "a"

\* the names of the query parameters, in the order of the claim
Names == <<"limit", "order", "after", "before">>

\* the text of the pairs of the parameters i.. of vals that are present,
\* each pair but the first one written preceded by "&"
RECURSIVE PairsFrom(_, _, _)
PairsFrom(vals, i, started) ==
    IF i > Len(Names) THEN <<>>
    ELSE IF vals[i] = <<>> THEN PairsFrom(vals, i + 1, started)
    ELSE (IF started THEN <<"&">> ELSE <<>>)
         \o <<Names[i], "=", vals[i][1]>>
         \o PairsFrom(vals, i + 1, TRUE)

\* C24: the URL of a listing call is the base URL when limit, order, after
\* and before are all absent; otherwise it is the base URL, "?", and one
\* name=value pair per present parameter in the order limit, order, after,
\* before, joined by "&".
C24_QueryParamsInOrder ==
    [][list_assistant =>
         LET vals == <<IF query'.limit = <<>> THEN <<>>
                       ELSE <<ToString(query'.limit[1])>>,
                       query'.order, query'.after, query'.before>>
             url == request'.path
         IN  IF \A i \in 1..Len(Names) : vals[i] = <<>>
             THEN url = <<"/assistants">>
             ELSE url = <<"/assistants", "?">> \o PairsFrom(vals, 1, FALSE)]_vars

\* a listing with limit and before present, order and after absent
C24_Witness ==
    /\ query = [limit |-> <<20>>, order |-> <<>>, after |-> <<>>, before |-> <<"id">>]
    /\ request.path = <<"/assistants", "?", "limit", "=", "20", "&", "before", "=", "id">>

\* C25: a request built by post, post_stream, get or delete carries the
\* header tupleleapai-Beta: assistants=v1 exactly when its path starts with
\* /assistants or /threads; the streaming request to /chat/completions does
\* not carry it and carries Accept: text/event-stream.
C25_BetaHeaderByPath ==
    request # NoRequest =>
        /\ (<<"tupleleapai-Beta", "assistants=v1">> \in request.headers)
               <=> (Head(request.path) \in {"/assistants", "/threads"})
        /\ (request.via = "post_stream" /\ request.path = CHAT)
               => /\ \A h \in request.headers : h[1] # "tupleleapai-Beta"
                  /\ <<"Accept", "text/event-stream">> \in request.headers

\* the streaming chat call has built its request, and the stream exists
C25_Witness ==
    /\ pc = "Idle"
    /\ request.via = "post_stream"
    /\ request.path = CHAT
    /\ <<"Accept", "text/event-stream">> \in request.headers

====
